---------------------------- MODULE Spec2Model ----------------------------
(***************************************************************************)
(* Model of src/main.py: the comment-to-code ratio analyzer.               *)
(*                                                                         *)
(* Text is modelled at character level: a Python str is a sequence of      *)
(* one-character strings, so that strip(), startswith(), endswith(),       *)
(* split(',') and os.path.splitext() are computed as the library computes  *)
(* them.  A file is the list readlines() returns for it.  A float ratio    *)
(* c / k is the rational <<num, den>> in lowest terms (0.0 is <<0, 1>>).   *)
(* Python's None is the value None below, which no count can take.         *)
(***************************************************************************)
EXTENDS Integers, Sequences, FiniteSets, TLC

VARIABLES
    args,                  \* parsed command line: [path, exclude, verbose]
    fs,                    \* file system: path -> [type, read, lines]
    env,                   \* the environment: [live, changes] made to fs
    pc,                    \* position of the program
    caller,                \* who called calculate_comment_code_ratio
    file_path,             \* calculate_comment_code_ratio: argument
    lines,                 \* calculate_comment_code_ratio: f.readlines()
    i,                     \* calculate_comment_code_ratio: loop position
    comment_count,         \* calculate_comment_code_ratio: local
    code_line_count,       \* calculate_comment_code_ratio: local
    in_multiline_comment,  \* calculate_comment_code_ratio: local
    result,                \* value returned by the last classifier call
    exclude_extensions,    \* main: parsed exclude list, or None
    pending,               \* analyze_directory: files of the listed directory
    todo,                  \* os.walk: directories still to list, in order
    total_comment_lines,   \* analyze_directory: local
    total_code_lines,      \* analyze_directory: local
    file_count,            \* analyze_directory: local
    total_ratio,           \* analyze_directory: local
    opened,                \* paths open() succeeded on
    log,                   \* logging records and printed lines, in order
    exit_status            \* process exit status, None while running

vars == <<args, fs, env, pc, caller, file_path, lines, i, comment_count,
          code_line_count, in_multiline_comment, result, exclude_extensions,
          pending, todo, total_comment_lines, total_code_lines, file_count,
          total_ratio, opened, log, exit_status>>

classifier_vars == <<file_path, lines, i, comment_count, code_line_count,
                     in_multiline_comment, result>>

directory_vars == <<pending, todo, total_comment_lines, total_code_lines,
                    file_count, total_ratio>>

-----------------------------------------------------------------------------
(* Bounds and input pools *)

MaxLines == 4       \* longest file enumerated line by line
MaxFiles == 2       \* most files placed under the scanned directory
MaxChanges == 1     \* most changes the environment makes during a scan

None == -1

-----------------------------------------------------------------------------
(* Python str operations on sequences of characters *)

\* the characters str.strip() removes (str.isspace()): tab, line feed,
\* vertical tab, form feed, carriage return, the separators U+001C..U+001F,
\* space, U+0085, U+00A0 and U+1680.  The spaces from U+2000 upwards cannot
\* appear in a TLA+ string, hence in no line of the model
Whitespace == {" ", "\t", "\n", "\r", "\f",
               "", "", "", "", "",
               "", " ", " "}

RECURSIVE LStrip(_)
LStrip(s) ==
    IF s = <<>> THEN s
    ELSE IF Head(s) \in Whitespace THEN LStrip(Tail(s)) ELSE s

RECURSIVE RStrip(_)
RStrip(s) ==
    IF s = <<>> THEN s
    ELSE IF s[Len(s)] \in Whitespace THEN RStrip(SubSeq(s, 1, Len(s) - 1))
    ELSE s

\* str.strip()
Strip(s) == RStrip(LStrip(s))

\* str.startswith(prefix)
StartsWith(s, prefix) ==
    /\ Len(s) >= Len(prefix)
    /\ SubSeq(s, 1, Len(prefix)) = prefix

\* str.endswith(suffix)
EndsWith(s, suffix) ==
    /\ Len(s) >= Len(suffix)
    /\ SubSeq(s, Len(s) - Len(suffix) + 1, Len(s)) = suffix

\* str.rfind(ch), 1-based; 0 when ch does not occur (Python: 0-based, -1)
RFind(s, ch) ==
    LET hits == {n \in 1..Len(s) : s[n] = ch}
    IN  IF hits = {} THEN 0 ELSE CHOOSE n \in hits : \A m \in hits : m <= n

\* str.split(sep) for a one-character sep
RECURSIVE Split(_, _)
Split(s, sep) ==
    LET hits == {n \in 1..Len(s) : s[n] = sep}
    IN  IF hits = {} THEN <<s>>
        ELSE LET n == CHOOSE k \in hits : \A m \in hits : k <= m
             IN  <<SubSeq(s, 1, n - 1)>> \o Split(SubSeq(s, n + 1, Len(s)), sep)

TripleSingle == <<"'", "'", "'">>
TripleDouble == <<"\"", "\"", "\"">>
Hash         == <<"#">>
SlashSlash   == <<"/", "/">>
SlashStar    == <<"/", "*">>
StarSlash    == <<"*", "/">>

-----------------------------------------------------------------------------
(* os.path, os.walk and open() on the modelled file system *)

Sep == "/"

\* os.path.join(root, file) for a relative file name
Join(root, file) ==
    IF root # <<>> /\ root[Len(root)] = Sep THEN root \o file
    ELSE root \o <<Sep>> \o file

\* os.path.splitext(p)[1]: the text from the last dot of the last path
\* component on, unless that component has only leading dots before it
SplitExt(p) ==
    LET sepIndex == RFind(p, Sep)
        dotIndex == RFind(p, ".")
    IN  IF /\ dotIndex > sepIndex
           /\ \E n \in (sepIndex + 1)..(dotIndex - 1) : p[n] # "."
        THEN SubSeq(p, dotIndex, Len(p))
        ELSE <<>>

\* p with repeated separators collapsed
RECURSIVE Collapse(_)
Collapse(p) ==
    IF Len(p) < 2 THEN p
    ELSE IF p[1] = Sep /\ p[2] = Sep THEN Collapse(Tail(p))
    ELSE <<p[1]>> \o Collapse(Tail(p))

\* the spelling under which the system looks a path up: separators are
\* collapsed and a trailing one is dropped, so "p.d/" and "p.d" name the
\* same directory; the root stays "/"
NormPath(p) ==
    LET c == Collapse(p)
    IN  IF Len(c) > 1 /\ c[Len(c)] = Sep THEN SubSeq(c, 1, Len(c) - 1) ELSE c

\* the path names something in the file system: it is the path of an
\* entry, or another spelling of it
Exists(p) ==
    /\ p # <<>>
    /\ IF p \in DOMAIN fs THEN TRUE
       ELSE \E k \in DOMAIN fs : NormPath(k) = NormPath(p)

\* what the path names
Entry(p) ==
    IF p \in DOMAIN fs THEN fs[p]
    ELSE fs[CHOOSE k \in DOMAIN fs : NormPath(k) = NormPath(p)]

\* the prefixes path resolution passes through: the text before a
\* separator that a further component follows
Prefixes(p) ==
    {SubSeq(p, 1, n - 1) :
        n \in {m \in 2..Len(p) : /\ p[m] = Sep
                                 /\ p[m - 1] # Sep
                                 /\ \E k \in (m + 1)..Len(p) : p[k] # Sep}}

\* why resolution cannot pass through q: a directory without search
\* permission (EACCES), a dangling link (ENOENT), any other entry that is
\* no directory (ENOTDIR); "none" when it can, or when q is not modelled
PrefixFault(q) ==
    IF ~Exists(q) THEN "none"
    ELSE IF Entry(q).type = "dir"
    THEN IF Entry(q).read = "noaccess" THEN "denied" ELSE "none"
    ELSE IF Entry(q).type = "special" /\ Entry(q).read = "notfound"
    THEN "notfound"
    ELSE "error"

\* the fault of the first prefix of p that has one
PathFault(p) ==
    LET bad == {q \in Prefixes(p) : PrefixFault(q) # "none"}
    IN  IF bad = {} THEN "none"
        ELSE PrefixFault(CHOOSE q \in bad : \A r \in bad : Len(q) <= Len(r))

\* os.path.isfile(p); a path spelled with a trailing separator names no file
IsFile(p) ==
    /\ Exists(p)
    /\ Entry(p).type = "file"
    /\ p[Len(p)] # Sep
    /\ PathFault(p) = "none"

\* os.path.isdir(p)
IsDir(p) == Exists(p) /\ Entry(p).type = "dir" /\ PathFault(p) = "none"

\* scandir(d) succeeds
Listable(d) == IsDir(d) /\ Entry(d).read = "ok"

\* how open(p) and readlines() end: "ok", or the except clause taken:
\* "notfound" FileNotFoundError, "denied" PermissionError, "error" any
\* other exception (IsADirectoryError, NotADirectoryError, a failed read)
ReadOutcome(p) ==
    IF PathFault(p) # "none" THEN PathFault(p)
    ELSE IF ~Exists(p) THEN "notfound"
    ELSE IF Entry(p).type = "dir"
    THEN IF Entry(p).read = "ok" THEN "error" ELSE "denied"
    ELSE IF p[Len(p)] = Sep
    THEN IF Entry(p).read = "notfound" THEN "notfound" ELSE "error"
    ELSE Entry(p).read

\* the exception may have come from readlines() on the opened file
MayFailInRead(p) ==
    /\ PathFault(p) = "none"
    /\ Exists(p)
    /\ Entry(p).type # "dir"
    /\ p[Len(p)] # Sep
    /\ Entry(p).read = "error"

\* the directory a normalised path lies in, and its name there
Parent(p) ==
    IF RFind(p, Sep) = 1 THEN <<Sep>> ELSE SubSeq(p, 1, RFind(p, Sep) - 1)

Basename(p) == SubSeq(p, RFind(p, Sep) + 1, Len(p))

\* the names scandir(d) lists
Listing(d) ==
    LET dir == NormPath(d)
        paths == {NormPath(k) : k \in DOMAIN fs}
    IN  {Basename(q) : q \in {r \in paths : /\ r # <<Sep>>
                                             /\ RFind(r, Sep) > 0
                                             /\ Parent(r) = dir}}

\* every <<root, file>> os.walk(top) yields, top down: the entries of top
\* that are not directories, under the spelling of top, then those of each
\* subdirectory os.path.join(top, name).  A directory that cannot be listed
\* yields nothing (scandir errors are ignored)
RECURSIVE Walk(_)
Walk(top) ==
    IF ~Listable(top) THEN {}
    ELSE LET names == Listing(top)
             dirs  == {n \in names : IsDir(Join(top, n))}
         IN  {<<top, n>> : n \in names \ dirs}
                 \cup UNION {Walk(Join(top, n)) : n \in dirs}

-----------------------------------------------------------------------------
(* calculate_comment_code_ratio *)

RECURSIVE Gcd(_, _)
Gcd(a, b) == IF b = 0 THEN a ELSE Gcd(b, a % b)

\* faulty variant: without code lines the ratio is the comment count
RatioNoCode(comments, code) ==
    IF code > 0
    THEN LET g == Gcd(comments, code) IN <<comments \div g, code \div g>>
    ELSE <<comments, 1>>

\* the float comment_count / code_line_count, or 0.0
Ratio(comments, code) ==
    IF code > 0
    THEN LET g == Gcd(comments, code) IN <<comments \div g, code \div g>>
    ELSE <<0, 1>>

\* faulty variant: lines inside an open block are not counted as comments
ClassifyLineNoInside(st, raw) ==
    LET line == Strip(raw)
    IN  IF line = <<>> THEN st
        ELSE IF StartsWith(line, TripleSingle) \/ StartsWith(line, TripleDouble)
        THEN [st EXCEPT !.in_multiline_comment = ~st.in_multiline_comment,
                        !.comment_count = @ + 1]
        ELSE IF StartsWith(line, Hash) \/ StartsWith(line, SlashSlash)
        THEN [st EXCEPT !.comment_count = @ + 1]
        ELSE IF StartsWith(line, SlashStar)
        THEN [st EXCEPT !.comment_count = @ + 1,
                        !.in_multiline_comment = TRUE]
        ELSE IF EndsWith(line, StarSlash) /\ st.in_multiline_comment
        THEN [st EXCEPT !.comment_count = @ + 1,
                        !.in_multiline_comment = FALSE]
        ELSE [st EXCEPT !.code_line_count = @ + 1]

\* faulty variant: a block comment closed on its own line leaves the flag
\* unset
ClassifyLineSameLineClose(st, raw) ==
    LET line == Strip(raw)
    IN  IF line = <<>> THEN st
        ELSE IF StartsWith(line, TripleSingle) \/ StartsWith(line, TripleDouble)
        THEN [st EXCEPT !.in_multiline_comment = ~st.in_multiline_comment,
                        !.comment_count = @ + 1]
        ELSE IF st.in_multiline_comment
        THEN [st EXCEPT !.comment_count = @ + 1]
        ELSE IF StartsWith(line, Hash) \/ StartsWith(line, SlashSlash)
        THEN [st EXCEPT !.comment_count = @ + 1]
        ELSE IF StartsWith(line, SlashStar)
        THEN [st EXCEPT !.comment_count = @ + 1,
                        !.in_multiline_comment = ~EndsWith(line, StarSlash)]
        ELSE IF EndsWith(line, StarSlash) /\ st.in_multiline_comment
        THEN [st EXCEPT !.comment_count = @ + 1,
                        !.in_multiline_comment = FALSE]
        ELSE [st EXCEPT !.code_line_count = @ + 1]

\* faulty variant: the line that opens a block comment is also counted as
\* code
ClassifyLineDoubleCount(st, raw) ==
    LET line == Strip(raw)
    IN  IF line = <<>> THEN st
        ELSE IF StartsWith(line, TripleSingle) \/ StartsWith(line, TripleDouble)
        THEN [st EXCEPT !.in_multiline_comment = ~st.in_multiline_comment,
                        !.comment_count = @ + 1]
        ELSE IF st.in_multiline_comment
        THEN [st EXCEPT !.comment_count = @ + 1]
        ELSE IF StartsWith(line, Hash) \/ StartsWith(line, SlashSlash)
        THEN [st EXCEPT !.comment_count = @ + 1]
        ELSE IF StartsWith(line, SlashStar)
        THEN [st EXCEPT !.comment_count = @ + 1,
                        !.code_line_count = @ + 1,
                        !.in_multiline_comment = TRUE]
        ELSE IF EndsWith(line, StarSlash) /\ st.in_multiline_comment
        THEN [st EXCEPT !.comment_count = @ + 1,
                        !.in_multiline_comment = FALSE]
        ELSE [st EXCEPT !.code_line_count = @ + 1]

\* faulty variant: an open block is tested before the triple quotes
ClassifyLineInsideFirst(st, raw) ==
    LET line == Strip(raw)
    IN  IF line = <<>> THEN st
        ELSE IF st.in_multiline_comment
        THEN [st EXCEPT !.comment_count = @ + 1]
        ELSE IF StartsWith(line, TripleSingle) \/ StartsWith(line, TripleDouble)
        THEN [st EXCEPT !.in_multiline_comment = ~st.in_multiline_comment,
                        !.comment_count = @ + 1]
        ELSE IF StartsWith(line, Hash) \/ StartsWith(line, SlashSlash)
        THEN [st EXCEPT !.comment_count = @ + 1]
        ELSE IF StartsWith(line, SlashStar)
        THEN [st EXCEPT !.comment_count = @ + 1,
                        !.in_multiline_comment = TRUE]
        ELSE IF EndsWith(line, StarSlash) /\ st.in_multiline_comment
        THEN [st EXCEPT !.comment_count = @ + 1,
                        !.in_multiline_comment = FALSE]
        ELSE [st EXCEPT !.code_line_count = @ + 1]

\* faulty variant: a line ending with */ is a comment whatever the flag
ClassifyLineCloseAlways(st, raw) ==
    LET line == Strip(raw)
    IN  IF line = <<>> THEN st
        ELSE IF StartsWith(line, TripleSingle) \/ StartsWith(line, TripleDouble)
        THEN [st EXCEPT !.in_multiline_comment = ~st.in_multiline_comment,
                        !.comment_count = @ + 1]
        ELSE IF st.in_multiline_comment
        THEN [st EXCEPT !.comment_count = @ + 1]
        ELSE IF StartsWith(line, Hash) \/ StartsWith(line, SlashSlash)
        THEN [st EXCEPT !.comment_count = @ + 1]
        ELSE IF StartsWith(line, SlashStar)
        THEN [st EXCEPT !.comment_count = @ + 1,
                        !.in_multiline_comment = TRUE]
        ELSE IF EndsWith(line, StarSlash)
        THEN [st EXCEPT !.comment_count = @ + 1,
                        !.in_multiline_comment = FALSE]
        ELSE [st EXCEPT !.code_line_count = @ + 1]

\* faulty variant: inside a block a line ending with */ closes it
ClassifyLineClosing(st, raw) ==
    LET line == Strip(raw)
    IN  IF line = <<>> THEN st
        ELSE IF StartsWith(line, TripleSingle) \/ StartsWith(line, TripleDouble)
        THEN [st EXCEPT !.in_multiline_comment = ~st.in_multiline_comment,
                        !.comment_count = @ + 1]
        ELSE IF st.in_multiline_comment
        THEN [st EXCEPT !.comment_count = @ + 1,
                        !.in_multiline_comment = ~EndsWith(line, StarSlash)]
        ELSE IF StartsWith(line, Hash) \/ StartsWith(line, SlashSlash)
        THEN [st EXCEPT !.comment_count = @ + 1]
        ELSE IF StartsWith(line, SlashStar)
        THEN [st EXCEPT !.comment_count = @ + 1,
                        !.in_multiline_comment = TRUE]
        ELSE IF EndsWith(line, StarSlash) /\ st.in_multiline_comment
        THEN [st EXCEPT !.comment_count = @ + 1,
                        !.in_multiline_comment = FALSE]
        ELSE [st EXCEPT !.code_line_count = @ + 1]

\* one iteration of the loop over lines: the scan state after `raw`
ClassifyLine(st, raw) ==
    LET line == Strip(raw)
    IN  IF line = <<>> THEN st
        ELSE IF StartsWith(line, TripleSingle) \/ StartsWith(line, TripleDouble)
        THEN [st EXCEPT !.in_multiline_comment = ~st.in_multiline_comment,
                        !.comment_count = @ + 1]
        ELSE IF st.in_multiline_comment
        THEN [st EXCEPT !.comment_count = @ + 1]
        ELSE IF StartsWith(line, Hash) \/ StartsWith(line, SlashSlash)
        THEN [st EXCEPT !.comment_count = @ + 1]
        ELSE IF StartsWith(line, SlashStar)
        THEN [st EXCEPT !.comment_count = @ + 1,
                        !.in_multiline_comment = TRUE]
        ELSE IF EndsWith(line, StarSlash) /\ st.in_multiline_comment
        THEN [st EXCEPT !.comment_count = @ + 1,
                        !.in_multiline_comment = FALSE]
        ELSE [st EXCEPT !.code_line_count = @ + 1]

\* the scan state a fresh call has after the lines ls
FreshScan == [comment_count |-> 0, code_line_count |-> 0,
              in_multiline_comment |-> FALSE]

RECURSIVE Classify(_)
Classify(ls) ==
    IF ls = <<>> THEN FreshScan
    ELSE ClassifyLine(Classify(SubSeq(ls, 1, Len(ls) - 1)), ls[Len(ls)])

NoResult == <<None, None, None>>

ScanState == [comment_count |-> comment_count,
              code_line_count |-> code_line_count,
              in_multiline_comment |-> in_multiline_comment]

\* faulty variant: the flag is left as the previous call set it
ReadOkKeepFlag ==
    /\ pc = "call"
    /\ ReadOutcome(file_path) = "ok"
    /\ opened' = opened \cup {file_path}
    /\ lines' = Entry(file_path).lines
    /\ comment_count' = 0
    /\ code_line_count' = 0
    /\ i' = 1
    /\ pc' = "scan"
    /\ UNCHANGED <<args, fs, env, caller, file_path, result, exclude_extensions,
                   log, exit_status, in_multiline_comment>>
    /\ UNCHANGED directory_vars

\* open() and readlines() succeed: the counters and the flag are initialised
ReadOk ==
    /\ pc = "call"
    /\ ReadOutcome(file_path) = "ok"
    /\ opened' = opened \cup {file_path}
    /\ lines' = Entry(file_path).lines
    /\ comment_count' = 0
    /\ code_line_count' = 0
    /\ in_multiline_comment' = FALSE
    /\ i' = 1
    /\ pc' = "scan"
    /\ UNCHANGED <<args, fs, env, caller, file_path, result, exclude_extensions,
                   log, exit_status>>
    /\ UNCHANGED directory_vars

\* faulty variant: a failed read returns the counts of an empty file
ReadFailAsEmpty ==
    /\ pc = "call"
    /\ ReadOutcome(file_path) # "ok"
    /\ opened' \in IF MayFailInRead(file_path)
                   THEN {opened, opened \cup {file_path}}
                   ELSE {opened}
    /\ log' = Append(log, [level |-> "error", what |-> ReadOutcome(file_path),
                           path |-> file_path, data |-> <<>>])
    /\ result' = <<0, 0, <<0, 1>> >>
    /\ pc' = "returned"
    /\ UNCHANGED <<args, fs, env, caller, file_path, lines, i, comment_count,
                   code_line_count, in_multiline_comment, exclude_extensions,
                   exit_status>>
    /\ UNCHANGED directory_vars

\* open() or readlines() raises: one of the three except clauses.  The
\* outcome "error" is `except Exception`: either open() raised (the file
\* was never opened) or readlines() raised on the opened file
ReadFail ==
    /\ pc = "call"
    /\ ReadOutcome(file_path) # "ok"
    /\ opened' \in IF MayFailInRead(file_path)
                   THEN {opened, opened \cup {file_path}}
                   ELSE {opened}
    /\ log' = Append(log, [level |-> "error", what |-> ReadOutcome(file_path),
                           path |-> file_path, data |-> <<>>])
    /\ result' = NoResult
    /\ pc' = "returned"
    /\ UNCHANGED <<args, fs, env, caller, file_path, lines, i, comment_count,
                   code_line_count, in_multiline_comment, exclude_extensions,
                   exit_status>>
    /\ UNCHANGED directory_vars

\* one iteration of `for line in lines`
ScanLine ==
    /\ pc = "scan"
    /\ i <= Len(lines)
    /\ LET st == ClassifyLine(ScanState, lines[i])
       IN  /\ comment_count' = st.comment_count
           /\ code_line_count' = st.code_line_count
           /\ in_multiline_comment' = st.in_multiline_comment
    /\ i' = i + 1
    /\ UNCHANGED <<args, fs, env, pc, caller, file_path, lines, result,
                   exclude_extensions, opened, log, exit_status>>
    /\ UNCHANGED directory_vars

\* the loop is over: compute the ratio and return the triple
Return ==
    /\ pc = "scan"
    /\ i > Len(lines)
    /\ result' = <<comment_count, code_line_count,
                   Ratio(comment_count, code_line_count)>>
    /\ pc' = "returned"
    /\ UNCHANGED <<args, fs, env, caller, file_path, lines, i, comment_count,
                   code_line_count, in_multiline_comment, exclude_extensions,
                   opened, log, exit_status>>
    /\ UNCHANGED directory_vars

-----------------------------------------------------------------------------
(* main and analyze_directory *)

\* [ext.strip() for ext in s.split(',') if ext.strip()] if s else None;
\* None and the empty list are both the empty sequence: the program only
\* tests the list for truth and for membership
ParseExclude(s) ==
    IF s = <<>> THEN <<>>
    ELSE LET parts == Split(s, ",")
             stripped == [n \in 1..Len(parts) |-> Strip(parts[n])]
         IN  SelectSeq(stripped, LAMBDA e : e # <<>>)

\* faulty variant: the extension is compared without its leading dot
ExcludedNoDot(path) ==
    /\ exclude_extensions # <<>>
    /\ \E n \in 1..Len(exclude_extensions) :
           exclude_extensions[n] = Tail(SplitExt(path) \o <<".">>)

\* exclude_extensions and file_extension in exclude_extensions
Excluded(path) ==
    /\ exclude_extensions # <<>>
    /\ \E n \in 1..Len(exclude_extensions) :
           exclude_extensions[n] = SplitExt(path)

\* comment_count is not None and code_line_count is not None
Analyzed(res) == res[1] # None /\ res[2] # None

\* main: the path is a regular file; classify it
MainFile ==
    /\ pc = "main"
    /\ IsFile(args.path)
    /\ exclude_extensions' = ParseExclude(args.exclude)
    /\ file_path' = args.path
    /\ caller' = "main"
    /\ pc' = "call"
    /\ UNCHANGED <<args, fs, env, lines, i, comment_count, code_line_count,
                   in_multiline_comment, result, opened, log, exit_status>>
    /\ UNCHANGED directory_vars

\* main: the classifier returned; print the line, or exit with status 1
MainFileDone ==
    /\ pc = "returned"
    /\ caller = "main"
    /\ IF Analyzed(result)
       THEN /\ log' = Append(log, [level |-> "print", what |-> "file",
                                   path |-> file_path,
                                   data |-> <<result[1], result[2]>>])
            /\ exit_status' = 0
       ELSE /\ log' = log
            /\ exit_status' = 1
    /\ pc' = "exit"
    /\ UNCHANGED <<args, fs, env, caller, exclude_extensions, opened>>
    /\ UNCHANGED classifier_vars
    /\ UNCHANGED directory_vars

\* main: the path is a directory; analyze_directory is called
MainDir ==
    /\ pc = "main"
    /\ ~IsFile(args.path)
    /\ IsDir(args.path)
    /\ exclude_extensions' = ParseExclude(args.exclude)
    /\ caller' = "analyze_directory"
    /\ pc' = "analyze"
    /\ UNCHANGED <<args, fs, env, opened, log, exit_status>>
    /\ UNCHANGED classifier_vars
    /\ UNCHANGED directory_vars

\* analyze_directory: the path is not a directory; the error is logged and
\* the function returns without a summary; main returns and the process
\* exits with status 0
AnalyzeInvalid ==
    /\ pc = "analyze"
    /\ ~IsDir(args.path)
    /\ total_comment_lines' = 0
    /\ total_code_lines' = 0
    /\ file_count' = 0
    /\ log' = Append(log, [level |-> "error", what |-> "invalid directory",
                           path |-> args.path, data |-> <<>>])
    /\ exit_status' = 0
    /\ pc' = "exit"
    /\ UNCHANGED <<args, fs, env, caller, exclude_extensions, pending, todo,
                   total_ratio, opened>>
    /\ UNCHANGED classifier_vars

\* analyze_directory: the path is a directory; the totals are initialised
\* and os.walk is started on it, nothing being listed yet
AnalyzeDirectory ==
    /\ pc = "analyze"
    /\ IsDir(args.path)
    /\ total_comment_lines' = 0
    /\ total_code_lines' = 0
    /\ file_count' = 0
    /\ pending' = {}
    /\ todo' = <<args.path>>
    /\ pc' = "walk"
    /\ UNCHANGED <<args, fs, env, caller, exclude_extensions, total_ratio,
                   opened, log, exit_status>>
    /\ UNCHANGED classifier_vars

\* the orders in which scandir may list the names S
Orders(S) ==
    {o \in [1..Cardinality(S) -> S] :
        \A a, b \in 1..Cardinality(S) : a # b => o[a] # o[b]}

\* os.walk: the files of the last directory are done; the next directory
\* is listed now.  Its entries that are not directories are the files of
\* the next iteration, its subdirectories come before the directories
\* still to list.  A directory that cannot be listed (any more) yields
\* nothing: the error is ignored
WalkScandir ==
    /\ pc = "walk"
    /\ pending = {}
    /\ todo # <<>>
    /\ \E d \in {Head(todo)} :
          IF Listable(d)
          THEN \E names \in {Listing(d)} :
               \E dirs \in {{n \in names : IsDir(Join(d, n))}} :
                  /\ pending' = {<<d, n>> : n \in names \ dirs}
                  /\ \E o \in Orders(dirs) :
                        todo' = [k \in 1..Len(o) |-> Join(d, o[k])]
                                    \o Tail(todo)
          ELSE /\ pending' = {}
               /\ todo' = Tail(todo)
    /\ UNCHANGED <<args, fs, env, pc, caller, exclude_extensions,
                   total_comment_lines, total_code_lines, file_count,
                   total_ratio, opened, log, exit_status>>
    /\ UNCHANGED classifier_vars

\* main: the path is neither a file nor a directory
MainInvalid ==
    /\ pc = "main"
    /\ ~IsFile(args.path)
    /\ ~IsDir(args.path)
    /\ exclude_extensions' = ParseExclude(args.exclude)
    /\ log' = Append(log, [level |-> "error", what |-> "invalid path",
                           path |-> args.path, data |-> <<>>])
    /\ exit_status' = 1
    /\ pc' = "exit"
    /\ UNCHANGED <<args, fs, env, caller, opened>>
    /\ UNCHANGED classifier_vars
    /\ UNCHANGED directory_vars

\* logging.debug(...): the record is emitted only under --verbose
Debug(what, path) ==
    IF args.verbose
    THEN Append(log, [level |-> "debug", what |-> what, path |-> path,
                      data |-> <<>>])
    ELSE log

\* analyze_directory: the next file has an excluded extension
WalkExcluded ==
    /\ pc = "walk"
    /\ \E e \in pending :
          /\ Excluded(Join(e[1], e[2]))
          /\ pending' = pending \ {e}
          /\ log' = Debug("excluded", Join(e[1], e[2]))
    /\ UNCHANGED <<args, fs, env, pc, caller, exclude_extensions, todo,
                   total_comment_lines, total_code_lines, file_count,
                   total_ratio, opened, exit_status>>
    /\ UNCHANGED classifier_vars

\* analyze_directory: the next entry is not a regular file
WalkNonFile ==
    /\ pc = "walk"
    /\ \E e \in pending :
          /\ ~Excluded(Join(e[1], e[2]))
          /\ ~IsFile(Join(e[1], e[2]))
          /\ pending' = pending \ {e}
          /\ log' = Debug("non-file", Join(e[1], e[2]))
    /\ UNCHANGED <<args, fs, env, pc, caller, exclude_extensions, todo,
                   total_comment_lines, total_code_lines, file_count,
                   total_ratio, opened, exit_status>>
    /\ UNCHANGED classifier_vars

\* analyze_directory: the next file is handed to the classifier
WalkCall ==
    /\ pc = "walk"
    /\ \E e \in pending :
          /\ ~Excluded(Join(e[1], e[2]))
          /\ IsFile(Join(e[1], e[2]))
          /\ pending' = pending \ {e}
          /\ file_path' = Join(e[1], e[2])
    /\ pc' = "call"
    /\ UNCHANGED <<args, fs, env, caller, lines, i, comment_count,
                   code_line_count, in_multiline_comment, result, todo,
                   exclude_extensions, total_comment_lines, total_code_lines,
                   file_count, total_ratio, opened, log, exit_status>>

\* faulty variant: a file that could not be read is counted as analyzed
WalkReturnCountsFailure ==
    /\ pc = "returned"
    /\ caller = "analyze_directory"
    /\ file_count' = file_count + 1
    /\ IF Analyzed(result)
       THEN /\ total_comment_lines' = total_comment_lines + result[1]
            /\ total_code_lines' = total_code_lines + result[2]
            /\ log' = Append(log, [level |-> "info", what |-> "file",
                                   path |-> file_path,
                                   data |-> <<result[1], result[2]>>])
       ELSE /\ UNCHANGED <<total_comment_lines, total_code_lines>>
            /\ log' = Append(log, [level |-> "warning", what |-> "skipping",
                                   path |-> file_path, data |-> <<>>])
    /\ pc' = "walk"
    /\ UNCHANGED <<args, fs, env, caller, exclude_extensions, pending, todo,
                   total_ratio, opened, exit_status>>
    /\ UNCHANGED classifier_vars

\* faulty variant: the totals are overwritten by the last file's counts
WalkReturnOverwrite ==
    /\ pc = "returned"
    /\ caller = "analyze_directory"
    /\ IF Analyzed(result)
       THEN /\ file_count' = file_count + 1
            /\ total_comment_lines' = result[1]
            /\ total_code_lines' = result[2]
            /\ log' = Append(log, [level |-> "info", what |-> "file",
                                   path |-> file_path,
                                   data |-> <<result[1], result[2]>>])
       ELSE /\ UNCHANGED <<file_count, total_comment_lines, total_code_lines>>
            /\ log' = Append(log, [level |-> "warning", what |-> "skipping",
                                   path |-> file_path, data |-> <<>>])
    /\ pc' = "walk"
    /\ UNCHANGED <<args, fs, env, caller, exclude_extensions, pending, todo,
                   total_ratio, opened, exit_status>>
    /\ UNCHANGED classifier_vars

\* analyze_directory: the classifier returned; add the counts, or warn
WalkReturn ==
    /\ pc = "returned"
    /\ caller = "analyze_directory"
    /\ IF Analyzed(result)
       THEN /\ file_count' = file_count + 1
            /\ total_comment_lines' = total_comment_lines + result[1]
            /\ total_code_lines' = total_code_lines + result[2]
            /\ log' = Append(log, [level |-> "info", what |-> "file",
                                   path |-> file_path,
                                   data |-> <<result[1], result[2]>>])
       ELSE /\ UNCHANGED <<file_count, total_comment_lines, total_code_lines>>
            /\ log' = Append(log, [level |-> "warning", what |-> "skipping",
                                   path |-> file_path, data |-> <<>>])
    /\ pc' = "walk"
    /\ UNCHANGED <<args, fs, env, caller, exclude_extensions, pending, todo,
                   total_ratio, opened, exit_status>>
    /\ UNCHANGED classifier_vars

\* analyze_directory: the walk is over; compute the ratio, print the
\* summary; main returns and the process exits with status 0
Summary ==
    /\ pc = "walk"
    /\ pending = {}
    /\ todo = <<>>
    /\ total_ratio' = Ratio(total_comment_lines, total_code_lines)
    /\ log' = Append(log, [level |-> "print", what |-> "summary",
                           path |-> <<>>,
                           data |-> <<file_count, total_comment_lines,
                                      total_code_lines>>])
    /\ exit_status' = 0
    /\ pc' = "exit"
    /\ UNCHANGED <<args, fs, env, caller, exclude_extensions, pending, todo,
                   total_comment_lines, total_code_lines, file_count, opened>>
    /\ UNCHANGED classifier_vars

-----------------------------------------------------------------------------
(* Inputs *)

LBlank  == <<"\n">>
LSpaces == <<" ", "\t", "\n">>
LDouble == <<"\"", "\"", "\"", "\n">>
LSingle == <<" ", "'", "'", "'", "x", "\n">>
LCode   == <<"c", "o", "d", "e", "\n">>
LHash   == <<"#", " ", "h", "e", "l", "l", "o", "\n">>
LSlash  == <<"/", "/", " ", "x", "\n">>
LBlock  == <<"/", "*", " ", "c", " ", "*", "/", "\n">>
LOpen   == <<"/", "*", " ", "a", "\n">>
LClose  == <<"b", " ", "*", "/", "\n">>
LWorld  == <<"w", "o", "r", "l", "d", "\n">>
LDocstring == <<"\"", "\"", "\"", "t", "e", "x", "t", "\"", "\"", "\"", "\n">>

\* the lines files are made of
LinePool == {LSpaces, LDouble, LSingle, LCode, LHash, LSlash,
             LBlock, LOpen, LClose}

\* a docstring block followed by code
DocstringFile == <<LDouble, LCode, LCode, LDouble, LCode>>

\* files with 3 comment and 5 code lines, and 1 comment and 2 code lines
File35 == <<LHash, LCode, LCode, LSlash, LCode, LCode, LHash, LCode>>
File12 == <<LHash, LCode, LCode>>

\* a comment and a code line; a one-line docstring, alone and inside a block
HelloWorldFile == <<LHash, LWorld>>
OneLineDocFile == <<LDocstring, LCode>>
DocInBlockFile == <<LOpen, LDocstring, LCode>>

\* lines with the rarer whitespace: a vertical tab alone and before #, a
\* unit separator after code, a file separator alone
LVTab     == <<"", "\n">>
LVTabHash == <<"", "#", " ", "c", "\n">>
LCodeUS   == <<"c", "o", "d", "e", "", "\n">>
LFileSep  == <<"", "\n">>

SeparatorFile == <<LVTab, LVTabHash, LCodeUS, LFileSep>>

\* every file of at most MaxLines lines over the pool, and the longer ones
FileContents ==
    UNION {[1..n -> LinePool] : n \in 0..MaxLines}
        \cup {DocstringFile, File35, <<LBlank>>, HelloWorldFile,
              OneLineDocFile, DocInBlockFile, SeparatorFile}

\* the files a directory is populated with
SampleContents ==
    {File12, File35, <<LBlock, LCode>>, <<LDouble, LCode>>, <<>>}

ReadErrors == {"notfound", "denied", "error"}

RegularFile(content) == [type |-> "file", read |-> "ok", lines |-> content]
UnreadableFile(err)  == [type |-> "file", read |-> err, lines |-> <<>>]
Directory(listing)   == [type |-> "dir", read |-> listing, lines |-> <<>>]

\* an entry os.path.isfile rejects.  open() on it gives "ok" and no line (a
\* device such as /dev/null), "notfound" (a dangling link) or "error" (a
\* socket)
Special(outcome) == [type |-> "special", read |-> outcome, lines |-> <<>>]

SpecialFile == Special("error")

PathFile == <<"f", ".", "l", "o", "g">>
PathDir  == <<"p", ".", "d">>
PathDirSlash == <<"p", ".", "d", "/">>
PathSub  == <<"p", ".", "d", "/", "s", ".", "d">>
PathA    == <<"p", ".", "d", "/", "a", ".", "p", "y">>
PathB    == <<"p", ".", "d", "/", "b", ".", "l", "o", "g">>
PathC    == <<"p", ".", "d", "/", "s", ".", "d", "/", "c", ".", "L", "O", "G">>
PathD    == <<"p", ".", "d", "/", ".", "l", "o", "g">>

ExcludeNone  == <<>>
ExcludeLog   == <<".", "l", "o", "g">>
ExcludeList  == <<".", "t", "x", "t", ",", " ", ".", "l", "o", "g", " ", ",">>
ExcludeUpper == <<".", "L", "O", "G", ",", ".", "p", "y">>

ExcludeArgs == {ExcludeNone, ExcludeLog, ExcludeList, ExcludeUpper}

\* the files the environment may create, and what they hold
NewFiles == {PathB, PathC}

NewContent == File12

\* the environment, while the scan runs: a directory is removed with all
\* it holds
DirectoryVanishes ==
    /\ caller = "analyze_directory"
    /\ pc # "exit"
    /\ env.live
    /\ env.changes < MaxChanges
    /\ \E d \in {k \in DOMAIN fs : fs[k].type = "dir"} :
          fs' = [k \in {q \in DOMAIN fs :
                          /\ NormPath(q) # NormPath(d)
                          /\ ~StartsWith(NormPath(q), Join(NormPath(d), <<>>))}
                    |-> fs[k]]
    /\ env' = [env EXCEPT !.changes = @ + 1]
    /\ UNCHANGED <<args, pc, caller, exclude_extensions, opened, log,
                   exit_status>>
    /\ UNCHANGED classifier_vars
    /\ UNCHANGED directory_vars

\* the environment, while the scan runs: a file is created in a directory
FileAppears ==
    /\ caller = "analyze_directory"
    /\ pc # "exit"
    /\ env.live
    /\ env.changes < MaxChanges
    /\ \E p \in NewFiles :
          /\ ~Exists(p)
          /\ IsDir(Parent(p))
          /\ fs' = [k \in DOMAIN fs \cup {p} |->
                       IF k = p THEN [type |-> "file", read |-> "ok",
                                      lines |-> NewContent]
                       ELSE fs[k]]
    /\ env' = [env EXCEPT !.changes = @ + 1]
    /\ UNCHANGED <<args, pc, caller, exclude_extensions, opened, log,
                   exit_status>>
    /\ UNCHANGED classifier_vars
    /\ UNCHANGED directory_vars

Start(a, f, live) ==
    /\ args = a
    /\ fs = f
    /\ env = [live |-> live, changes |-> 0]
    /\ pc = "main"
    /\ caller = "none"
    /\ file_path = <<>>
    /\ lines = <<>>
    /\ i = 0
    /\ comment_count = 0
    /\ code_line_count = 0
    /\ in_multiline_comment = FALSE
    /\ result = NoResult
    /\ exclude_extensions = <<>>
    /\ pending = {}
    /\ todo = <<>>
    /\ total_comment_lines = 0
    /\ total_code_lines = 0
    /\ file_count = 0
    /\ total_ratio = <<0, 1>>
    /\ opened = {}
    /\ log = <<>>
    /\ exit_status = None

\* file systems holding one path, or nothing at it
FileSystems(contents) ==
    {[p \in {PathFile} |-> RegularFile(c)] : c \in contents}
    \cup {[p \in {PathFile} |-> UnreadableFile(e)] : e \in ReadErrors}
    \cup {[p \in {PathFile} |-> Special(o)] :
              o \in {"ok", "notfound", "error"}}
    \cup {[p \in {} |-> SpecialFile]}

\* the program is run on one path: every small file, an unreadable file,
\* a special file, a missing path
Init ==
    \E f \in FileSystems(FileContents) :
        Start([path |-> PathFile, exclude |-> ExcludeNone,
               verbose |-> FALSE], f, FALSE)

Next ==
    \/ MainFile
    \/ MainInvalid
    \/ ReadOk
    \/ ReadFail
    \/ ScanLine
    \/ Return
    \/ MainFileDone

Spec == Init /\ [][Next]_vars

\* directory trees: at most MaxFiles entries under PathDir and PathSub
Entries ==
    {RegularFile(c) : c \in SampleContents}
    \cup {UnreadableFile(e) : e \in ReadErrors} \cup {SpecialFile}

TreesOf(entries) ==
    UNION {
      UNION {
        {[p \in ps \cup {PathDir, PathSub} |->
             IF p = PathDir THEN Directory(l[1])
             ELSE IF p = PathSub THEN Directory(l[2])
             ELSE e[p]] : e \in [ps -> entries]}
        : l \in {<<"ok", "ok">>, <<"ok", "denied">>, <<"denied", "ok">>}}
      : ps \in {q \in SUBSET {PathA, PathB, PathC, PathD} :
                  Cardinality(q) <= MaxFiles}}

Trees == TreesOf(Entries)

\* the trees run under --verbose, named with or without a trailing
\* separator
SmallEntries == {RegularFile(File12), RegularFile(<<LBlank>>), SpecialFile}

SmallTrees == TreesOf(SmallEntries)

\* a tree at the root of the file system
PathRoot  == <<"/">>
PathRootA == <<"/", "a", ".", "p", "y">>
PathRootS == <<"/", "s", ".", "d">>
PathRootC == <<"/", "s", ".", "d", "/", "c", ".", "L", "O", "G">>

RootTree ==
    [p \in {PathRoot, PathRootA, PathRootS, PathRootC} |->
        IF p \in {PathRoot, PathRootS} THEN Directory("ok")
        ELSE RegularFile(File12)]

\* the trees the environment changes while they are scanned
LiveTrees ==
    {[p \in ps \cup {PathDir, PathA, PathSub} |->
         IF p \in {PathDir, PathSub} THEN Directory("ok")
         ELSE IF p = PathA THEN RegularFile(File12)
         ELSE RegularFile(<<LDouble, LCode>>)] : ps \in {{}, {PathC}}}

\* paths that resolution cannot follow: through a regular file, with a
\* trailing separator after one, into a directory without any permission;
\* and that directory itself
PathThroughFile  == PathFile \o <<"/", "x">>
PathFileSlash    == PathFile \o <<"/">>

ClosedTree ==
    [p \in {PathDir, PathA} |->
        IF p = PathDir THEN Directory("noaccess") ELSE RegularFile(File12)]

FaultRuns ==
    {<<PathThroughFile, [p \in {PathFile} |-> RegularFile(File12)]>>,
     <<PathFileSlash, [p \in {PathFile} |-> RegularFile(File12)]>>,
     <<PathA, ClosedTree>>,
     <<PathDir, ClosedTree>>}

\* the program is run on a directory tree, or on one path, with an
\* exclude list, with or without --verbose, the tree staying as it is
\* or being changed during the scan
ProgInit ==
    \E x \in ExcludeArgs :
        \/ \E f \in Trees :
               Start([path |-> PathDir, exclude |-> x, verbose |-> FALSE],
                     f, FALSE)
        \/ \E f \in SmallTrees, top \in {PathDir, PathDirSlash} :
               Start([path |-> top, exclude |-> x, verbose |-> TRUE],
                     f, FALSE)
        \/ \E f \in LiveTrees :
               Start([path |-> PathDir, exclude |-> x, verbose |-> FALSE],
                     f, TRUE)
        \/ \E v \in BOOLEAN :
               Start([path |-> PathRoot, exclude |-> x, verbose |-> v],
                     RootTree, FALSE)
        \/ \E f \in FileSystems(SampleContents), v \in BOOLEAN :
               Start([path |-> PathFile, exclude |-> x, verbose |-> v],
                     f, FALSE)
        \/ \E r \in FaultRuns :
               Start([path |-> r[1], exclude |-> x, verbose |-> FALSE],
                     r[2], FALSE)

\* the steps of the program
ProgStep ==
    \/ Next
    \/ MainDir
    \/ AnalyzeInvalid
    \/ AnalyzeDirectory
    \/ WalkScandir
    \/ WalkExcluded
    \/ WalkNonFile
    \/ WalkCall
    \/ WalkReturn
    \/ Summary

\* the steps of the program and of its environment
ProgNext ==
    \/ ProgStep
    \/ DirectoryVanishes
    \/ FileAppears

ProgSpec == ProgInit /\ [][ProgNext]_vars

-----------------------------------------------------------------------------
(* Properties of the classifier *)

\* the classifier has returned counts for a readable file holding `content`
Returned(content) ==
    /\ pc = "returned"
    /\ Entry(file_path) = RegularFile(content)
    /\ Analyzed(result)

\* C1, as the spec states it: the lines """, code, code, """, code give
\* comment_lines = 2 and code_lines = 3
C1_DocstringAsStated ==
    Returned(DocstringFile) => result[1] = 2 /\ result[2] = 3

\* C1, amended: the lines """, code, code, """, code give comment_lines = 4
\* and code_lines = 1, the two lines inside the block being comments
C1_Docstring ==
    Returned(DocstringFile) => result[1] = 4 /\ result[2] = 1

C1_Witness ==
    Returned(DocstringFile) /\ result = <<4, 1, <<4, 1>> >>

\* C2, as the spec states it: the lines /* c */, code give comment_lines = 1
\* and code_lines = 0
C2_BlockQuirkAsStated ==
    Returned(<<LBlock, LCode>>) => result[1] = 1 /\ result[2] = 0

\* C2, amended: the lines /* c */, code give comment_lines = 2 and
\* code_lines = 0, the second line being counted as a comment
C2_BlockQuirk ==
    Returned(<<LBlock, LCode>>) => result[1] = 2 /\ result[2] = 0

C2_Witness ==
    Returned(<<LBlock, LCode>>) /\ result = <<2, 0, <<0, 1>> >>

\* what set the flag that is on after the lines ls: "slashstar", "triple",
\* or "none" when the flag is off
RECURSIVE OpenedBy(_)
OpenedBy(ls) ==
    IF ls = <<>> THEN "none"
    ELSE LET front  == SubSeq(ls, 1, Len(ls) - 1)
             before == Classify(front)
             after  == ClassifyLine(before, ls[Len(ls)])
         IN  IF ~after.in_multiline_comment THEN "none"
             ELSE IF before.in_multiline_comment THEN OpenedBy(front)
             ELSE IF StartsWith(Strip(ls[Len(ls)]), SlashStar) THEN "slashstar"
             ELSE "triple"

\* the scan is about to process a line ending with */ inside a block that
\* a /* line opened
AtBlockClose ==
    /\ pc = "scan"
    /\ i <= Len(lines)
    /\ in_multiline_comment
    /\ OpenedBy(SubSeq(lines, 1, i - 1)) = "slashstar"
    /\ EndsWith(Strip(lines[i]), StarSlash)
    /\ ~StartsWith(Strip(lines[i]), TripleSingle)
    /\ ~StartsWith(Strip(lines[i]), TripleDouble)

\* C3: inside a block opened by /*, a line ending with */ is counted once as
\* a comment and sets in_multiline_comment to false
C3_BlockCloses ==
    [][AtBlockClose /\ i' = i + 1 =>
          /\ comment_count' = comment_count + 1
          /\ code_line_count' = code_line_count
          /\ in_multiline_comment' = FALSE]_vars

\* a line is blank when every character of it is whitespace
BlankLine(raw) == \A n \in 1..Len(raw) : raw[n] \in Whitespace

Blanks(ls) == Cardinality({n \in 1..Len(ls) : BlankLine(ls[n])})

\* C4: line conservation.  During the scan the comment, code and blank
\* lines add up to the lines processed; every step skips a blank line or
\* adds exactly 1 to exactly one counter; at the end comment_lines +
\* code_lines <= total lines, with equality iff no line is blank
C4_LineConservation ==
    /\ [](pc = "scan" =>
            comment_count + code_line_count + Blanks(SubSeq(lines, 1, i - 1))
                = i - 1)
    /\ [][pc = "scan" /\ i' = i + 1 =>
            IF BlankLine(lines[i])
            THEN /\ comment_count' = comment_count
                 /\ code_line_count' = code_line_count
            ELSE \/ /\ comment_count' = comment_count + 1
                    /\ code_line_count' = code_line_count
                 \/ /\ comment_count' = comment_count
                    /\ code_line_count' = code_line_count + 1]_vars
    /\ [](pc = "returned" /\ Analyzed(result) =>
            /\ result[1] + result[2] + Blanks(lines) = Len(lines)
            /\ result[1] + result[2] <= Len(lines)
            /\ (result[1] + result[2] = Len(lines) <=> Blanks(lines) = 0))

C4_Witness ==
    /\ pc = "returned"
    /\ Analyzed(result)
    /\ Blanks(lines) = 2
    /\ result[1] = 1
    /\ result[2] = 1

-----------------------------------------------------------------------------
(* Properties of the whole program *)

\* the environment has left the file system as it was at the start
Undisturbed == env.changes = 0

\* analyze_directory returned at once, the path being no directory
InvalidDirectory ==
    log # <<>> /\ log[Len(log)].what = "invalid directory"

\* the directory scan is over: analyze_directory found the directory, the
\* traversal ran and the program has exited
DirectoryDone ==
    pc = "exit" /\ caller = "analyze_directory" /\ ~InvalidDirectory

\* r is comments / code when there is code, and 0.0 when there is none
RatioIs(r, comments, code) ==
    /\ r[1] >= 0
    /\ r[2] > 0
    /\ IF code > 0 THEN r[1] * code = comments * r[2] ELSE r = <<0, 1>>

\* C5: the ratio a file gets is comment_lines / code_lines when code_lines
\* > 0 and exactly 0.0 when code_lines = 0, never negative; the directory
\* scan's overall ratio follows the same policy on the totals
C5_RatioPolicy ==
    /\ pc = "returned" /\ Analyzed(result) =>
          /\ result[1] = comment_count
          /\ result[2] = code_line_count
          /\ RatioIs(result[3], result[1], result[2])
    /\ DirectoryDone =>
          RatioIs(total_ratio, total_comment_lines, total_code_lines)

C5_Witness ==
    /\ DirectoryDone
    /\ total_code_lines = 0
    /\ total_comment_lines > 0
    /\ total_ratio = <<0, 1>>

\* the triple a call returns for a readable file
Alone(content) ==
    LET st == Classify(content)
    IN  <<st.comment_count, st.code_line_count,
          Ratio(st.comment_count, st.code_line_count)>>

\* C6: every call starts from the flag false whatever the calls before it
\* left: the scan state is the one a fresh scan of the lines read so far
\* gives, the result is the one the file gets when classified alone, and two
\* files with the same lines are reported with the same counts
C6_Independence ==
    /\ pc = "scan" =>
          /\ Undisturbed => lines = Entry(file_path).lines
          /\ ScanState = Classify(SubSeq(lines, 1, i - 1))
    /\ pc = "returned" /\ Analyzed(result) =>
          /\ Undisturbed => lines = Entry(file_path).lines
          /\ result = Alone(lines)
    /\ Undisturbed =>
          \A m, n \in DOMAIN log :
              /\ log[m].what = "file"
              /\ log[n].what = "file"
              /\ Entry(log[m].path).lines = Entry(log[n].path).lines
              => log[m].data = log[n].data

\* a file was classified after a file that left the flag set, and a file
\* with the same lines as an earlier one was reported
C6_Witness ==
    /\ DirectoryDone
    /\ Len(log) = 3
    /\ log[1].what = "file"
    /\ Entry(log[1].path).lines = <<LDouble, LCode>>
    /\ Classify(Entry(log[1].path).lines).in_multiline_comment
    /\ log[2].what = "file"
    /\ log[2].path # log[1].path
    /\ Entry(log[2].path).lines = <<LDouble, LCode>>
    /\ log[2].data = <<2, 0>>

\* the classifier was called from the directory scan on a file whose read
\* fails
ReadFailsInScan ==
    /\ caller = "analyze_directory"
    /\ ReadOutcome(file_path) # "ok"

\* the files the walk yields that are regular and not excluded
Eligible ==
    {p \in {Join(e[1], e[2]) : e \in Walk(args.path)} :
        IsFile(p) /\ ~Excluded(p)}

\* the file p was handed to the classifier and its outcome was logged
Processed(p) ==
    \E n \in 1..Len(log) :
        log[n].path = p /\ log[n].level \in {"info", "warning"}

\* the longest file a directory is populated with, at the start or by the
\* environment
Longest ==
    LET lens == {Len(c) : c \in SampleContents \cup {<<LBlank>>, NewContent}}
    IN  CHOOSE n \in lens : \A m \in lens : m <= n

\* the entries whose path starts with that of a directory os.walk has still
\* to list: those at or under it
Below ==
    IF todo = <<>> THEN {}
    ELSE UNION {{k \in DOMAIN fs : StartsWith(k, d)} :
                   d \in {NormPath(todo[n]) : n \in 1..Len(todo)}}

\* the steps the program and its environment have left at most: every step
\* lowers it
Remaining ==
    LET perFile == Longest + 5
        gone    == Cardinality({n \in 1..Len(todo) : ~Exists(todo[n])})
        walk    == perFile * Cardinality(pending)
                       + (perFile + 1) * Cardinality(Below) + gone
        changes == IF env.live THEN 2 * perFile * (MaxChanges - env.changes)
                   ELSE 0
        whole   == (perFile + 1) * (Cardinality(DOMAIN fs) + 1)
    IN  CASE pc = "main"     -> whole + 2 + changes
          [] pc = "analyze"  -> whole + 1 + changes
          [] pc = "call"     -> walk + perFile - 1 + changes
          [] pc = "scan"     -> walk + Len(lines) - i + 3 + changes
          [] pc = "returned" -> walk + 1 + changes
          [] pc = "walk"     -> walk + changes
          [] pc = "exit"     -> -1

\* C7: a file whose read fails in a directory scan leaves file_count and
\* the totals unchanged and gets a warning; the traversal goes on over the
\* remaining files, and the scan reaches the summary: until the summary is
\* printed a step of the program is always possible, and the steps left go
\* down
C7_ReadFailureRecovered ==
    /\ [][pc = "call" /\ ReadFailsInScan /\ fs' = fs =>
            /\ result' = NoResult
            /\ pc' = "returned"
            /\ UNCHANGED <<file_count, total_comment_lines, total_code_lines,
                           pending, todo>>]_vars
    /\ [][pc = "returned" /\ ReadFailsInScan /\ Undisturbed /\ fs' = fs =>
            /\ log' = Append(log, [level |-> "warning", what |-> "skipping",
                                   path |-> file_path, data |-> <<>>])
            /\ pc' = "walk"
            /\ UNCHANGED <<file_count, total_comment_lines, total_code_lines,
                           pending, todo>>]_vars
    /\ [](DirectoryDone =>
            /\ pending = {}
            /\ todo = <<>>
            /\ Undisturbed => \A p \in Eligible : Processed(p)
            /\ log[Len(log)].what = "summary")
    /\ [](caller = "analyze_directory" /\ pc # "exit" => ENABLED ProgStep)
    /\ [][Remaining' < Remaining]_vars

\* a read failed, a warning was logged, a later file was still analyzed and
\* the summary was printed
C7_Witness ==
    /\ DirectoryDone
    /\ Len(log) = 4
    /\ log[1].level = "error"
    /\ log[2].level = "warning"
    /\ log[3].level = "info"
    /\ log[4] = [level |-> "print", what |-> "summary", path |-> <<>>,
                 data |-> <<1, log[3].data[1], log[3].data[2]>>]

\* the eligible files whose read succeeds
Readable == {p \in Eligible : Entry(p).read = "ok"}

RECURSIVE SumOver(_, _)
SumOver(S, field) ==
    IF S = {} THEN 0
    ELSE LET p == CHOOSE q \in S : TRUE
         IN  Alone(Entry(p).lines)[field] + SumOver(S \ {p}, field)

\* C8: after the traversal file_count is the number of non-excluded regular
\* files read successfully and the totals are the sums of their counts, in
\* whatever order they were visited; files with (3, 5) and (1, 2) give
\* file_count 2, totals 4 and 7, ratio 4/7
C8_AggregationIsSum ==
    DirectoryDone /\ Undisturbed =>
        LET read == Readable
        IN  /\ file_count = Cardinality(read)
            /\ total_comment_lines = SumOver(read, 1)
            /\ total_code_lines = SumOver(read, 2)
            /\ log[Len(log)].data =
                  <<file_count, total_comment_lines, total_code_lines>>
            /\ {Entry(p).lines : p \in read} = {File35, File12}
               /\ Cardinality(read) = 2
               => /\ file_count = 2
                  /\ total_comment_lines = 4
                  /\ total_code_lines = 7
                  /\ total_ratio = <<4, 7>>

\* the (1, 2) file was visited before the (3, 5) file
C8_Witness ==
    /\ DirectoryDone
    /\ exclude_extensions = <<>>
    /\ Len(log) = 3
    /\ log[1].data = <<1, 2>>
    /\ log[2].data = <<3, 5>>
    /\ file_count = 2
    /\ total_comment_lines = 4
    /\ total_code_lines = 7
    /\ total_ratio = <<4, 7>>

\* ext is the extension of the path p: a dot and the characters after it,
\* at the end of the last component, with a character other than a dot
\* before it in that component
HasExtension(p, ext) ==
    /\ ext # <<>>
    /\ ext[1] = "."
    /\ \A n \in 2..Len(ext) : ext[n] \notin {".", Sep}
    /\ EndsWith(p, ext)
    /\ \E n \in 1..(Len(p) - Len(ext)) :
          /\ p[n] # "."
          /\ \A m \in n..(Len(p) - Len(ext)) : p[m] # Sep

\* the exclude set contains the extension of p
InExcludeSet(p) ==
    \E n \in 1..Len(exclude_extensions) : HasExtension(p, exclude_extensions[n])

\* p was never opened and no reported line or count is about it
Untouched(p) ==
    /\ p \notin opened
    /\ \A n \in 1..Len(log) : log[n].what = "file" => log[n].path # p

\* C9, as the spec states it: in any run, a file whose extension is in the
\* exclude set is never opened and contributes to no reported count
C9_ExclusionAsStated ==
    \A p \in DOMAIN fs : InExcludeSet(p) => Untouched(p)

\* C9, amended: in a directory scan, a file whose extension is in the
\* exclude set is never opened and contributes to no reported count
C9_ExclusionInScan ==
    caller = "analyze_directory" =>
        /\ \A p \in DOMAIN fs : InExcludeSet(p) => Untouched(p)
        /\ DirectoryDone /\ Undisturbed =>
              LET read == Readable
              IN  /\ read \cap {p \in DOMAIN fs : InExcludeSet(p)} = {}
                  /\ file_count = Cardinality(read)

\* .log is excluded: b.log was skipped unopened while c.LOG was analyzed
C9_Witness ==
    /\ DirectoryDone
    /\ exclude_extensions = <<ExcludeLog>>
    /\ PathB \in DOMAIN fs
    /\ Entry(PathB).type = "file"
    /\ Entry(PathB).read = "ok"
    /\ Untouched(PathB)
    /\ PathC \in opened
    /\ file_count = 1

\* the input path cannot be read
Unreadable(p) == Exists(p) /\ Entry(p).read # "ok"

\* C10: the exit status is non-zero when the input path is invalid,
\* unreadable, or neither a file nor a directory, and zero in every other
\* case (in the runs the environment left alone, and in those where
\* analyze_directory found the path to be no directory)
C10_ExitStatus ==
    pc = "exit" /\ (Undisturbed \/ InvalidDirectory) =>
        (exit_status # 0 <=>
            \/ ~IsFile(args.path) /\ ~IsDir(args.path)
            \/ Unreadable(args.path))

-----------------------------------------------------------------------------
(* Unreadable and empty files; the rules of the scan *)

\* the classifier has just returned to the directory scan
ReturnedToScan == pc = "returned" /\ caller = "analyze_directory"

\* the file is readable and has no line, or only blank lines
BlankOnly(p) ==
    /\ Entry(p).read = "ok"
    /\ \A n \in 1..Len(Entry(p).lines) : BlankLine(Entry(p).lines[n])

\* C11: the classifier returns (None, None, None) exactly when reading the
\* file failed; a readable file that is empty or all blank returns
\* (0, 0, 0.0) and adds one to file_count and nothing to the totals in a
\* directory scan, while an unreadable file leaves file_count unchanged
C11_UnreadableVersusEmpty ==
    /\ [](pc = "returned" /\ Undisturbed =>
            /\ Entry(file_path).read # "ok" => result = NoResult
            /\ Entry(file_path).read = "ok" =>
                  result[1] >= 0 /\ result[2] >= 0 /\ result[3] # <<>>
            /\ BlankOnly(file_path) => result = <<0, 0, <<0, 1>> >>)
    /\ [][ReturnedToScan /\ Undisturbed /\ fs' = fs
            /\ BlankOnly(file_path) =>
            /\ file_count' = file_count + 1
            /\ total_comment_lines' = total_comment_lines
            /\ total_code_lines' = total_code_lines]_vars
    /\ [][ReturnedToScan /\ Undisturbed /\ Entry(file_path).read # "ok" =>
            file_count' = file_count]_vars

\* a directory with an unreadable file and an empty file: one file analyzed
C11_Witness ==
    /\ DirectoryDone
    /\ Len(log) = 4
    /\ log[1].level = "error"
    /\ log[2].level = "warning"
    /\ log[3].level = "info"
    /\ Entry(log[3].path).lines = <<>>
    /\ log[3].data = <<0, 0>>
    /\ log[4].data = <<1, 0, 0>>

\* the trimmed line starts with three quotes
TripleQuoted(raw) ==
    LET line == Strip(raw)
    IN  \E q \in {"'", "\""} :
           Len(line) >= 3 /\ line[1] = q /\ line[2] = q /\ line[3] = q

\* the scan takes a step over the line lines[i]
ScanStep == pc = "scan" /\ i <= Len(lines) /\ i' = i + 1

\* C12: a line starting with three quotes inverts in_multiline_comment and
\* adds 1 to comment_count, whatever the flag was and whatever set it: it
\* closes an open block, and a one-line docstring seen with the flag false
\* leaves the flag true
C12_TripleQuotePriority ==
    /\ [][ScanStep /\ TripleQuoted(lines[i]) =>
            /\ in_multiline_comment' = ~in_multiline_comment
            /\ comment_count' = comment_count + 1
            /\ code_line_count' = code_line_count]_vars
    /\ [](Returned(OneLineDocFile) =>
            in_multiline_comment /\ result[1] = 2 /\ result[2] = 0)
    /\ [](Returned(DocInBlockFile) =>
            ~in_multiline_comment /\ result[1] = 2 /\ result[2] = 1)

\* the one-line docstring closed the block that /* opened, and the line
\* after it was counted as code
C12_Witness ==
    /\ Returned(DocInBlockFile)
    /\ ~in_multiline_comment
    /\ result = <<2, 1, <<2, 1>> >>

\* the trimmed line starts with the marker
Marked(raw, marker) ==
    LET line == Strip(raw)
    IN  /\ Len(line) >= Len(marker)
        /\ \A n \in 1..Len(marker) : line[n] = marker[n]

\* C13: with the flag false, a line starting with # or // adds 1 to
\* comment_count, a non-blank line starting with no marker adds 1 to
\* code_line_count even if it ends with */, and both leave the flag false;
\* the lines # hello, world give (1, 1, 1.0)
C13_SingleLineRules ==
    /\ [][ScanStep /\ ~in_multiline_comment /\ ~TripleQuoted(lines[i])
            /\ (Marked(lines[i], Hash) \/ Marked(lines[i], SlashSlash)) =>
            /\ comment_count' = comment_count + 1
            /\ code_line_count' = code_line_count
            /\ ~in_multiline_comment']_vars
    /\ [][ScanStep /\ ~in_multiline_comment /\ ~BlankLine(lines[i])
            /\ ~TripleQuoted(lines[i])
            /\ ~Marked(lines[i], Hash)
            /\ ~Marked(lines[i], SlashSlash)
            /\ ~Marked(lines[i], SlashStar) =>
            /\ code_line_count' = code_line_count + 1
            /\ comment_count' = comment_count
            /\ ~in_multiline_comment']_vars
    /\ [](Returned(HelloWorldFile) => result = <<1, 1, <<1, 1>> >>)

\* a file of # hello and a line ending with */ was scanned with the flag
\* false throughout
C13_Witness ==
    /\ Returned(<<LHash, LClose>>)
    /\ ~in_multiline_comment
    /\ result = <<1, 1, <<1, 1>> >>

\* C14: within a scan in_multiline_comment goes from true to false only on
\* a line starting with three quotes, never on a line ending with */, and
\* code_line_count does not grow while the flag is true: after a /* line
\* nothing is counted as code until a triple-quote line is processed
C14_OnlyTripleQuoteCloses ==
    [][ScanStep /\ in_multiline_comment =>
          /\ ~in_multiline_comment' => TripleQuoted(lines[i])
          /\ ~TripleQuoted(lines[i]) =>
                /\ in_multiline_comment'
                /\ code_line_count' = code_line_count]_vars

\* /* a, b */, code: the flag is still set at the end and no line was
\* counted as code
C14_Witness ==
    /\ Returned(<<LOpen, LClose, LCode>>)
    /\ in_multiline_comment
    /\ result = <<3, 0, <<0, 1>> >>

=============================================================================
